---- MODULE Spec2Model ----
(***************************************************************************)
(* Model of the retry / fallback core of the reliability demo              *)
(* (m2-reliable-agents/02_fallback_logic.py): execute_with_retry, called   *)
(* directly, by run_agent_with_fallback, or by two threads at once, and    *)
(* get_fallback_response. A run is one of these four uses, or one call of  *)
(* run_test (m2-reliable-agents/03_stress_testing.py), or one call of      *)
(* run_agent (m1-agent-failures/02_cascading_errors.py).                   *)
(*                                                                         *)
(* A Python dict is a TLA+ record: `"error" in result` is                  *)
(* "error" \in DOMAIN result, and a missing key is a missing field.        *)
(* One invocation of execute_with_retry is a sequential process whose      *)
(* position is pc; it blocks at two places, the operation call (line 89)   *)
(* and time.sleep (line 100), which are the points where the model yields. *)
(***************************************************************************)
EXTENDS Integers, Sequences, FiniteSets, TLC

VARIABLES
    pc,           \* position of the invocation in execute_with_retry
    max_retries,  \* the max_retries argument of the invocation
    it,           \* next index the range(max_retries) iterator yields
    attempt,      \* the loop variable (-1: not bound yet)
    result,       \* the local `result` (NoValue: not bound yet)
    history,      \* the Results the operation has returned, in call order
    waits,        \* the arguments of the time.sleep calls, in order
    ret,          \* the value returned (NoValue: not returned yet)
    ret_line,     \* which return statement returned: "none", "line93", "line102"
    func,         \* the callable of the invocation, by name ("none": no call yet)
    args,         \* the `args` dict of the invocation
    trace,        \* what the invocation did, in order: call, return, sleep, wake
    raised,       \* the exception that left execute_with_retry ("none": none)
    cancelled_at, \* attempt after which a cancellation request arrived (-1: none)
    agent_pc,     \* position of run_agent_with_fallback
    sim_error,    \* its simulate_error argument ("None": None)
    agent_out,    \* the "Agent:" lines it has printed, in order
    fallback_log, \* the calls of get_fallback_response: argument and result
    frames,       \* the locals of the concurrent calls of execute_with_retry, by frame
    c_pc,         \* position of each concurrent invocation
    c_max,        \* the max_retries each concurrent invocation was given
    c_history,    \* the Results each one's operation has returned, in order
    c_waits,      \* the time.sleep arguments of each one, in order
    c_ret,        \* the value each one returned (NoValue: not returned yet)
    test_pc,      \* position of run_test (03_stress_testing.py)
    expected_tool, \* its expected_tool argument ("None": None)
    expected_args, \* its expected_args argument (NoneArgs: None)
    test_msg,     \* the message the chat model answered the test with
    test_result,  \* the dict run_test returned (NoValue: not returned yet)
    run_pc,       \* position of run_agent (02_cascading_errors.py)
    messages,     \* its `messages` list
    msg,          \* its `msg`: the latest message of the chat model
    step,         \* its `step` counter (0: not bound yet)
    requests      \* for each chat request sent, in order, the messages it carried

corevars ==
    <<pc, max_retries, it, attempt, result, history, waits, ret, ret_line,
      func, args, trace, raised, cancelled_at>>

agentvars == <<agent_pc, sim_error, agent_out, fallback_log>>

concvars == <<frames, c_pc, c_max, c_history, c_waits, c_ret>>

testvars == <<test_pc, expected_tool, expected_args, test_msg, test_result>>

loopvars == <<run_pc, messages, msg, step, requests>>

vars == <<corevars, agentvars, concvars, testvars, loopvars>>

\* A run exercises one of the programs: neither script has been started.
ScriptsIdle == test_pc = "idle" /\ run_pc = "idle"

\* ------------------------------------------------------------------ bounds

\* Most direct calls of get_fallback_response in one run.
MaxFallbackCalls == 2

\* Largest max_retries an invocation is given.
MaxRetriesBound == 3

\* The max_retries values a caller may pass: nothing in the code restricts
\* the argument, so zero and a negative value are included.
MaxRetriesValues == -1 .. MaxRetriesBound

\* The default of the max_retries parameter.
DefaultMaxRetries == 3

\* ------------------------------------------------------- the demo backends

\* An unbound local / a value not yet produced.
NoValue == [unset |-> TRUE]

OrderIds == {"ORD-12345", "ORD-67890", "ORD-99999"}
ProductIds == {"blue-widget", "green-tool", "red-gadget"}
SimulatedErrors == {"None", "timeout", "service_unavailable", "rate_limit"}

orders ==
    [o \in {"ORD-12345", "ORD-67890"} |->
        IF o = "ORD-12345"
        THEN [order_id |-> "ORD-12345", status |-> "delivered", items |-> <<"Blue Widget">>]
        ELSE [order_id |-> "ORD-67890", status |-> "in_transit", items |-> <<"Green Tool">>]]

inventory ==
    [p \in {"blue-widget", "green-tool"} |->
        IF p = "blue-widget"
        THEN [product_id |-> "blue-widget", name |-> "Blue Widget", in_stock |-> TRUE, quantity |-> 45]
        ELSE [product_id |-> "green-tool", name |-> "Green Tool", in_stock |-> FALSE, quantity |-> 0]]

get_order_status(order_id, simulate_error) ==
    IF simulate_error = "timeout"
    THEN [error |-> "timeout", message |-> "Request timed out", retryable |-> TRUE]
    ELSE IF simulate_error = "service_unavailable"
    THEN [error |-> "service_unavailable",
          message |-> "Service temporarily unavailable", retryable |-> TRUE]
    ELSE IF order_id \in DOMAIN orders
    THEN orders[order_id]
    ELSE [error |-> "not_found",
          message |-> "Order " \o order_id \o " not found", retryable |-> FALSE]

check_inventory(product_id, simulate_error) ==
    IF simulate_error = "rate_limit"
    THEN [error |-> "rate_limit", message |-> "Too many requests", retryable |-> TRUE]
    ELSE IF product_id \in DOMAIN inventory
    THEN inventory[product_id]
    ELSE [error |-> "not_found",
          message |-> "Product " \o product_id \o " not found", retryable |-> FALSE]

\* Results of callables other than the two demo backends: func is any
\* callable returning a dict, so the flag may be missing, a success may carry
\* a "retryable" field, and an operation may itself report "max_retries".
OtherResults ==
    { [error |-> "bad_request", message |-> "Malformed arguments"],
      [order_id |-> "ORD-12345", status |-> "delayed", retryable |-> TRUE],
      [error |-> "max_retries", message |-> "Failed after 3 attempts", retryable |-> FALSE] }

\* Everything `func(**args)` may return.
OpResults ==
    {get_order_status(o, e) : o \in OrderIds, e \in SimulatedErrors}
        \cup {check_inventory(p, e) : p \in ProductIds, e \in SimulatedErrors}
        \cup OtherResults

\* ------------------------------------------------------ execute_with_retry

\* `"error" in result`
HasError(r) == "error" \in DOMAIN r

\* Variant of the flag lookup with a default: a missing key counts as true.
RetryableFlag_MissingIsTrue(r) == IF "retryable" \in DOMAIN r THEN r.retryable = TRUE ELSE TRUE

\* truth value of `result.get("retryable")`: a missing key gives None
RetryableFlag(r) == IF "retryable" \in DOMAIN r THEN r.retryable = TRUE ELSE FALSE

\* Variants of the return test, each a slip in writing line 92.
ReturnsImmediately_ErrorsOnly(r) == HasError(r) /\ (~RetryableFlag(r))
ReturnsImmediately_RetryAllErrors(r) == ~HasError(r)
ReturnsImmediately_FlagInverted(r) == (~HasError(r)) \/ RetryableFlag(r)
ReturnsImmediately_FlagOnly(r) == ~RetryableFlag(r)

\* `"error" not in result or not result.get("retryable")`
ReturnsImmediately(r) == (~HasError(r)) \/ (~RetryableFlag(r))

\* `for attempt in range(max_retries)`: the iterator has a next index
RangeHasNext(i, m) == i < m

\* Variant of the backoff guard: sleeps after the last attempt too.
AttemptsRemain_OffByOne(a, m) == a < m
\* Variant with the comparison the wrong way round: never sleeps.
AttemptsRemain_Inverted(a, m) == a > m - 1

\* `attempt < max_retries - 1`
AttemptsRemain(a, m) == a < m - 1

\* Variants of the backoff formula.
wait_time_Linear(a) == 2 * a
wait_time_Shifted(a) == 2 ^ (a + 1)

\* `wait_time = 2 ** attempt`
wait_time(a) == 2 ^ a

\* Variant of the final return that leaves the failure marked retryable.
MaxRetriesFailure_StillRetryable(m) ==
    [error |-> "max_retries",
     message |-> "Failed after " \o ToString(m) \o " attempts",
     retryable |-> TRUE]

\* the dict of the final return statement
MaxRetriesFailure(m) ==
    [error |-> "max_retries",
     message |-> "Failed after " \o ToString(m) \o " attempts",
     retryable |-> FALSE]

\* The keys of available_functions, and a name for any other callable a
\* caller of execute_with_retry may pass.
available_functions == {"get_order_status", "check_inventory"}
OtherCallable == "other"

\* `args.get(key)` with None written "None"
ArgOrNone(a, key) == IF key \in DOMAIN a THEN a[key] ELSE "None"

\* The argument dicts a caller passes to each callable.
OrderArgs ==
    {[order_id |-> o] : o \in OrderIds}
        \cup {[order_id |-> o, simulate_error |-> e] :
                 o \in OrderIds, e \in SimulatedErrors \ {"None"}}
ProductArgs ==
    {[product_id |-> p] : p \in ProductIds}
        \cup {[product_id |-> p, simulate_error |-> e] :
                 p \in ProductIds, e \in SimulatedErrors \ {"None"}}
OtherArgs == {[query |-> "status"]}

ArgsOf(f) ==
    IF f = "get_order_status" THEN OrderArgs
    ELSE IF f = "check_inventory" THEN ProductArgs
    ELSE OtherArgs

\* Variant of the call that hands the attempt index to the operation.
CallKwargs_WithAttempt(a, i) ==
    [k \in DOMAIN a \cup {"attempt"} |-> IF k = "attempt" THEN ToString(i) ELSE a[k]]

\* `func(**args)`: the keyword arguments the operation receives
CallKwargs(a, i) == a

\* What `func(**kwargs)` may return: the demo backends are functions of their
\* arguments, any other callable may return any Result on any call.
Apply(f, kwargs) ==
    IF f = "get_order_status"
    THEN {get_order_status(kwargs.order_id, ArgOrNone(kwargs, "simulate_error"))}
    ELSE IF f = "check_inventory"
    THEN {check_inventory(kwargs.product_id, ArgOrNone(kwargs, "simulate_error"))}
    ELSE OpResults

\* An entry of the trace.
Event(e, i, secs, kwargs) == [ev |-> e, attempt |-> i, secs |-> secs, kwargs |-> kwargs]

\* ------------------------------------------------- get_fallback_response

GenericFallback == "I encountered an issue. Please contact support@globomantics.com"

fallbacks ==
    [c \in {"not_found", "timeout", "rate_limit", "service_unavailable", "max_retries"} |->
        CASE c = "not_found" ->
               "I couldn't find that. Please double-check the ID and try again."
          [] c = "timeout" ->
               "Our system is running slow. Would you like me to try again?"
          [] c = "rate_limit" ->
               "We're experiencing high traffic. Please wait a moment."
          [] c = "service_unavailable" ->
               "Our system is temporarily unavailable. Try again in a few minutes."
          [] c = "max_retries" ->
               "I'm having trouble accessing our systems. Let me connect you with support@globomantics.com"]

\* Variants of the lookup: a misspelt key, and a table without the entry for
\* the code execute_with_retry synthesizes.
get_fallback_response_KeyTypo(error) ==
    IF error \in DOMAIN fallbacks \ {"not_found"}
    THEN fallbacks[error]
    ELSE IF error = "not-found" THEN fallbacks["not_found"] ELSE GenericFallback
get_fallback_response_NoMaxRetries(error) ==
    IF error \in DOMAIN fallbacks \ {"max_retries"} THEN fallbacks[error] ELSE GenericFallback

\* `fallbacks.get(error, <generic>)`
get_fallback_response(error) ==
    IF error \in DOMAIN fallbacks THEN fallbacks[error] ELSE GenericFallback

\* The strings get_fallback_response is called with directly: the keys of
\* the table and strings that are not keys.
FallbackInputs ==
    DOMAIN fallbacks
        \cup {"", "cancelled", "invalid_configuration", "bad_request", "NOT_FOUND", "not-found"}

\* ------------------------------------------------ run_agent_with_fallback

\* The tool calls the chat model may answer with, after json.loads of the
\* arguments: a tool of the schema with its required argument.
ToolCalls ==
    {[name |-> "get_order_status", arguments |-> [order_id |-> o]] : o \in OrderIds}
        \cup {[name |-> "check_inventory", arguments |-> [product_id |-> p]] : p \in ProductIds}

\* `if simulate_error: function_args["simulate_error"] = simulate_error`
InjectError(a, e) ==
    IF e = "None"
    THEN a
    ELSE [k \in DOMAIN a \cup {"simulate_error"} |->
             IF k = "simulate_error" THEN e ELSE a[k]]

\* Variant of the error test that looks at the retryable flag.
AgentSeesError_ByFlag(r) == RetryableFlag(r)

\* `if "error" in result` of run_agent_with_fallback
AgentSeesError(r) == "error" \in DOMAIN r

\* -------------------------------------- concurrent execute_with_retry

\* Two invocations running at the same time, each on its own thread.
Threads == {1, 2}

\* What the operations of the concurrent invocations return.
ConcResults ==
    { get_order_status("ORD-12345", "None"),
      get_order_status("ORD-99999", "None"),
      get_order_status("ORD-12345", "timeout") }

\* Variant in which the loop state lives in one place shared by all calls
\* (module-level variables instead of locals).
FrameOf_Shared(t) == 1

\* The frame holding the locals of invocation t: every call of a Python
\* function gets its own.
FrameOf(t) == t

NewFrame(m) == [max_retries |-> m, it |-> 0, attempt |-> -1, result |-> NoValue]

\* execute_with_retry run by itself on an operation that returns h[1], h[2],
\* ... : the calls made, the sleeps and the value returned, from attempt i on
\* with the sleeps w so far. (ret is NoValue when h ends before the run does.)
RECURSIVE RunAlone(_, _, _, _)
RunAlone(m, h, i, w) ==
    IF ~RangeHasNext(i, m)
    THEN [calls |-> i, waits |-> w, ret |-> MaxRetriesFailure(m)]
    ELSE IF i + 1 > Len(h)
    THEN [calls |-> i + 1, waits |-> w, ret |-> NoValue]
    ELSE IF ReturnsImmediately(h[i + 1])
    THEN [calls |-> i + 1, waits |-> w, ret |-> h[i + 1]]
    ELSE IF AttemptsRemain(i, m)
    THEN RunAlone(m, h, i + 1, Append(w, wait_time(i)))
    ELSE RunAlone(m, h, i + 1, w)

\* ------------------------------------- run_test (03_stress_testing.py)

\* An expected_args of None.
NoneArgs == [is_none |-> TRUE]

\* The functions of the `tools` schema of the stress test.
StressTools == {"get_order_status", "check_inventory", "process_refund"}

\* The expected_tool and expected_args values of the tests of main.
ExpectedTools == StressTools \cup {"None"}

ExpectedArgs ==
    { NoneArgs,
      [product_id |-> "blue-widget"], [product_id |-> "red-gadget"],
      [order_id |-> "ORD-12345"], [order_id |-> "ORD-67890"] }

\* tool.function.arguments is a JSON text, which json.loads turns back into
\* the dict it encodes.
json_text(d) == [json |-> d]
json_loads(text) == text.json

\* The argument dicts the chat model may put in a tool call: those of the
\* tests, one with a key more and one with the expected key missing.
ModelArgs ==
    { [product_id |-> "blue-widget"], [product_id |-> "red-gadget"],
      [order_id |-> "ORD-12345"], [order_id |-> "ORD-67890"],
      [order_id |-> "ORD-67890", reason |-> "damaged"],
      [reason |-> "damaged"] }

TestToolCalls ==
    { [function |-> [name |-> n, arguments |-> json_text(a)]] :
          n \in StressTools, a \in ModelArgs }

\* The messages the chat model may answer with: a text, one tool call, or
\* two tool calls.
TestMessages ==
    { [content |-> "Could you share your order ID?", tool_calls |-> <<>>] }
      \cup { [content |-> "None", tool_calls |-> <<c>>] : c \in TestToolCalls }
      \cup { [content |-> "None",
              tool_calls |->
                  <<c, [function |-> [name |-> "process_refund",
                                      arguments |-> json_text([order_id |-> "ORD-67890"])]]>>] :
                 c \in { d \in TestToolCalls : d.function.name = "get_order_status" } }

\* `(actual_tool == expected_tool) if expected_tool else True`
tool_match(actual_tool, want_tool) ==
    IF want_tool # "None" THEN actual_tool = want_tool ELSE TRUE

\* `actual_args.get(key)`: None for a missing key
dict_get(d, key) == IF key \in DOMAIN d THEN d[key] ELSE "None"

\* args_match after the `if expected_args:` block: the loop clears it at the
\* first expected key whose value differs.
args_match(actual_args, want_args) ==
    IF want_args # NoneArgs
    THEN \A key \in DOMAIN want_args : dict_get(actual_args, key) = want_args[key]
    ELSE TRUE

\* What run_test returns once the chat model has answered with m. (The text
\* of TestMessages is shorter than 60 characters: content[:60] is all of it.)
run_test(m, want_tool, want_args) ==
    IF m.tool_calls # <<>>
    THEN LET tool == m.tool_calls[1]
             actual_tool == tool.function.name
             actual_args == json_loads(tool.function.arguments)
         IN  [tool |-> actual_tool,
              args |-> actual_args,
              passed |-> tool_match(actual_tool, want_tool)
                           /\ args_match(actual_args, want_args)]
    ELSE [text |-> m.content \o "...", passed |-> (want_tool = "None")]

\* No use of the retry core has been started.
RetryIdle ==
    /\ pc = "idle" /\ agent_pc = "idle" /\ fallback_log = <<>>
    /\ \A t \in Threads : c_pc[t] = "idle"

\* ------------------------------- run_agent (02_cascading_errors.py)

\* Most replies with tool calls the chat model gives in one run.
MaxRounds == 2

\* The `orders` of get_order. (99.99 is written as a text.)
cascade_orders ==
    [o \in {"ORD-001"} |->
        [id |-> "ORD-001", status |-> "delivered", total |-> "99.99",
         item |-> "Laptop Stand"]]

get_order(order_id) ==
    IF order_id = ""
    THEN [error |-> "Order ID is required"]
    ELSE IF order_id \in DOMAIN cascade_orders
    THEN cascade_orders[order_id]
    ELSE [error |-> "Order " \o order_id \o " not found"]

process_refund(order_id, amount) ==
    IF order_id = ""
    THEN [error |-> "Order ID is required"]
    ELSE [success |-> TRUE, refund_id |-> "REF-123", amount |-> amount]

\* `available_functions[tool.function.name](**args)`
call_tool(name, kwargs) ==
    IF name = "get_order"
    THEN get_order(kwargs.order_id)
    ELSE process_refund(kwargs.order_id, kwargs.amount)

\* The tool calls the chat model may ask for: the functions of the `tools`
\* schema with their required arguments.
CascadeCalls ==
    { [name |-> "get_order", arguments |-> json_text([order_id |-> "ORD-001"])],
      [name |-> "get_order", arguments |-> json_text([order_id |-> "999"])],
      [name |-> "process_refund",
       arguments |-> json_text([order_id |-> "ORD-001", amount |-> "99.99"])],
      [name |-> "process_refund",
       arguments |-> json_text([order_id |-> "", amount |-> "50"])] }

\* The id the API gives the j-th tool call of the reply to request n: no two
\* tool calls of a conversation share an id.
ToolCallId(n, j) == "call_" \o ToString(n) \o "_" \o ToString(j)

\* The replies the chat model may give to request n: a text, or one or two
\* tool calls.
CascadeReplies(n) ==
    { [role |-> "assistant", content |-> "Done.", tool_calls |-> <<>>] }
      \cup { [role |-> "assistant", content |-> "None",
              tool_calls |-> <<[id |-> ToolCallId(n, 1), function |-> c]>>] :
                 c \in CascadeCalls }
      \cup { [role |-> "assistant", content |-> "None",
              tool_calls |-> <<[id |-> ToolCallId(n, 1), function |-> c],
                               [id |-> ToolCallId(n, 2), function |-> d]>>] :
                 c \in CascadeCalls, d \in CascadeCalls }

UserQueries ==
    { "Please refund my order ORD-001, the item was damaged",
      "Please refund order 999, I paid $50 for it" }

system_prompt ==
    "You are a support agent. You must complete every task requested by the user. Do not ask clarifying questions."

\* json.dumps: the JSON text of a dict
json_dumps(d) == [json |-> d]

\* The tool message appended for one tool call.
ToolMessage(tool) ==
    [role |-> "tool",
     tool_call_id |-> tool.id,
     content |-> json_dumps(call_tool(tool.function.name,
                                      json_loads(tool.function.arguments)))]

\* The for loop over msg.tool_calls, from the j-th tool call on: each pass
\* appends the tool message and adds one to step.
RECURSIVE ForTools(_, _, _, _)
ForTools(tool_calls, j, ms, st) ==
    IF j > Len(tool_calls)
    THEN [messages |-> ms, step |-> st]
    ELSE ForTools(tool_calls, j + 1, Append(ms, ToolMessage(tool_calls[j])), st + 1)

\* Variant of the loop body that appends the assistant message after the
\* tool messages.
LoopBody_AssistantLast(m, ms, st) ==
    LET after == ForTools(m.tool_calls, 1, ms, st)
    IN  [messages |-> Append(after.messages, m), step |-> after.step]

\* One pass of the while loop up to the next chat request: append msg, then
\* run the for loop.
LoopBody(m, ms, st) == ForTools(m.tool_calls, 1, Append(ms, m), st)

Init ==
    /\ pc = "idle"
    /\ max_retries = DefaultMaxRetries
    /\ it = 0
    /\ attempt = -1
    /\ result = NoValue
    /\ history = <<>>
    /\ waits = <<>>
    /\ ret = NoValue
    /\ ret_line = "none"
    /\ func = "none"
    /\ args = NoValue
    /\ trace = <<>>
    /\ raised = "none"
    /\ cancelled_at = -1
    /\ agent_pc = "idle"
    /\ sim_error = "None"
    /\ agent_out = <<>>
    /\ fallback_log = <<>>
    /\ frames = [f \in Threads |-> NewFrame(DefaultMaxRetries)]
    /\ c_pc = [t \in Threads |-> "idle"]
    /\ c_max = [t \in Threads |-> DefaultMaxRetries]
    /\ c_history = [t \in Threads |-> <<>>]
    /\ c_waits = [t \in Threads |-> <<>>]
    /\ c_ret = [t \in Threads |-> NoValue]
    /\ test_pc = "idle"
    /\ expected_tool = "None"
    /\ expected_args = NoneArgs
    /\ test_msg = NoValue
    /\ test_result = NoValue
    /\ run_pc = "idle"
    /\ messages = <<>>
    /\ msg = NoValue
    /\ step = 0
    /\ requests = <<>>

\* The entry of execute_with_retry(f, a, m).
Enter(f, a, m) ==
    /\ pc = "idle"
    /\ func' = f
    /\ args' = a
    /\ max_retries' = m
    /\ it' = 0
    /\ pc' = "for"
    /\ UNCHANGED <<attempt, result, history, waits, ret, ret_line, trace, raised,
                   cancelled_at>>

\* A caller enters execute_with_retry(f, a, m) directly.
Invoke(f, a, m) ==
    /\ agent_pc = "idle"
    /\ fallback_log = <<>>
    /\ \A t \in Threads : c_pc[t] = "idle"
    /\ ScriptsIdle
    /\ Enter(f, a, m)
    /\ UNCHANGED agentvars
    /\ UNCHANGED <<concvars, testvars, loopvars>>

\* The head of the for loop: bind the next attempt index, or leave the loop
\* and execute the final return.
ForNext ==
    /\ pc = "for"
    /\ IF RangeHasNext(it, max_retries)
       THEN /\ attempt' = it
            /\ it' = it + 1
            /\ pc' = "call"
            /\ UNCHANGED <<ret, ret_line>>
       ELSE /\ ret' = MaxRetriesFailure(max_retries)
            /\ ret_line' = "line102"
            /\ pc' = "done"
            /\ UNCHANGED <<attempt, it>>
    /\ UNCHANGED <<max_retries, result, history, waits, func, args, trace, raised,
                   cancelled_at>>
    /\ UNCHANGED agentvars
    /\ UNCHANGED <<concvars, testvars, loopvars>>

\* `func(**args)` is entered: the operation is in flight.
CallOp ==
    /\ pc = "call"
    /\ pc' = "in_call"
    /\ trace' = Append(trace, Event("call", attempt, 0, CallKwargs(args, attempt)))
    /\ UNCHANGED <<max_retries, it, attempt, result, history, waits, ret, ret_line,
                   func, args, raised, cancelled_at>>
    /\ UNCHANGED agentvars
    /\ UNCHANGED <<concvars, testvars, loopvars>>

\* The operation returns r, which is bound to `result`.
OpReturns(r) ==
    /\ pc = "in_call"
    /\ r \in Apply(func, trace[Len(trace)].kwargs)
    /\ result' = r
    /\ history' = Append(history, r)
    /\ trace' = Append(trace, Event("return", attempt, 0, NoValue))
    /\ pc' = "classify"
    /\ UNCHANGED <<max_retries, it, attempt, waits, ret, ret_line, func, args, raised,
                   cancelled_at>>
    /\ UNCHANGED agentvars
    /\ UNCHANGED <<concvars, testvars, loopvars>>

\* The two if statements of the loop body, up to the return, the call of
\* time.sleep or the end of the body. `result['error']` in the first print
\* raises KeyError for a dict without that key.
Classify ==
    /\ pc = "classify"
    /\ IF ReturnsImmediately(result)
       THEN /\ ret' = result
            /\ ret_line' = "line93"
            /\ pc' = "done"
            /\ UNCHANGED <<waits, trace, raised>>
       ELSE IF AttemptsRemain(attempt, max_retries)
       THEN IF HasError(result)
            THEN /\ waits' = Append(waits, wait_time(attempt))
                 /\ trace' = Append(trace, Event("sleep", attempt, wait_time(attempt), NoValue))
                 /\ pc' = "sleep"
                 /\ UNCHANGED <<ret, ret_line, raised>>
            ELSE /\ raised' = "KeyError"
                 /\ pc' = "raised"
                 /\ UNCHANGED <<waits, trace, ret, ret_line>>
       ELSE /\ pc' = "for"
            /\ UNCHANGED <<waits, trace, ret, ret_line, raised>>
    /\ UNCHANGED <<max_retries, it, attempt, result, history, func, args, cancelled_at>>
    /\ UNCHANGED agentvars
    /\ UNCHANGED <<concvars, testvars, loopvars>>

\* A cancellation request of the host (a request deadline, a user abort)
\* arrives while the invocation sleeps. execute_with_retry takes no
\* cancellation argument and time.sleep(wait_time) is not given one: the
\* request changes nothing the invocation reads.
CancelFires ==
    /\ pc = "sleep"
    /\ cancelled_at = -1
    /\ cancelled_at' = attempt
    /\ UNCHANGED <<pc, max_retries, it, attempt, result, history, waits, ret, ret_line,
                   func, args, trace, raised>>
    /\ UNCHANGED agentvars
    /\ UNCHANGED <<concvars, testvars, loopvars>>

\* Variant of the wait that returns only when a cancellation request has
\* arrived (a wait on the cancellation event with no timeout).
SleepElapses_WaitsForCancel ==
    /\ pc = "sleep"
    /\ cancelled_at # -1
    /\ pc' = "for"
    /\ trace' = Append(trace, Event("wake", attempt, wait_time(attempt), NoValue))
    /\ UNCHANGED <<max_retries, it, attempt, result, history, waits, ret, ret_line,
                   func, args, raised, cancelled_at>>
    /\ UNCHANGED agentvars
    /\ UNCHANGED <<concvars, testvars, loopvars>>

\* time.sleep(wait_time) returns.
SleepElapses ==
    /\ pc = "sleep"
    /\ pc' = "for"
    /\ trace' = Append(trace, Event("wake", attempt, wait_time(attempt), NoValue))
    /\ UNCHANGED <<max_retries, it, attempt, result, history, waits, ret, ret_line,
                   func, args, raised, cancelled_at>>
    /\ UNCHANGED agentvars
    /\ UNCHANGED <<concvars, testvars, loopvars>>

\* A direct call of get_fallback_response(error).
CallFallback(error) ==
    /\ agent_pc = "idle"
    /\ pc = "idle"
    /\ \A t \in Threads : c_pc[t] = "idle"
    /\ ScriptsIdle
    /\ Len(fallback_log) < MaxFallbackCalls
    /\ fallback_log' = Append(fallback_log,
                              [error |-> error, message |-> get_fallback_response(error)])
    /\ UNCHANGED <<corevars, agent_pc, sim_error, agent_out>>
    /\ UNCHANGED <<concvars, testvars, loopvars>>

\* run_agent_with_fallback(user_message, e) up to its first chat request.
AgentStart(e) ==
    /\ agent_pc = "idle"
    /\ pc = "idle"
    /\ \A t \in Threads : c_pc[t] = "idle"
    /\ ScriptsIdle
    /\ fallback_log = <<>>
    /\ sim_error' = e
    /\ agent_pc' = "await_model"
    /\ UNCHANGED <<corevars, agent_out, fallback_log>>
    /\ UNCHANGED <<concvars, testvars, loopvars>>

\* The chat model answers without a tool call: print its content and return.
AgentNoToolCall ==
    /\ agent_pc = "await_model"
    /\ agent_out' = Append(agent_out, [kind |-> "content", text |-> "model content"])
    /\ agent_pc' = "done"
    /\ UNCHANGED <<corevars, sim_error, fallback_log>>
    /\ UNCHANGED <<concvars, testvars, loopvars>>

\* The chat model answers with tool calls, the first being tc: build the
\* arguments and enter execute_with_retry(func, function_args).
AgentToolCall(tc) ==
    /\ agent_pc = "await_model"
    /\ Enter(tc.name, InjectError(tc.arguments, sim_error), DefaultMaxRetries)
    /\ agent_pc' = "executing"
    /\ UNCHANGED <<sim_error, agent_out, fallback_log>>
    /\ UNCHANGED <<concvars, testvars, loopvars>>

\* execute_with_retry has returned: print the fallback for an error and
\* return, or send the tool result to the chat model.
AgentHandleResult ==
    /\ agent_pc = "executing"
    /\ pc = "done"
    /\ IF AgentSeesError(ret)
       THEN /\ fallback_log' = Append(fallback_log,
                   [error |-> ret.error, message |-> get_fallback_response(ret.error)])
            /\ agent_out' = Append(agent_out,
                   [kind |-> "fallback", text |-> get_fallback_response(ret.error)])
            /\ agent_pc' = "done"
       ELSE /\ agent_pc' = "await_final"
            /\ UNCHANGED <<agent_out, fallback_log>>
    /\ UNCHANGED <<corevars, sim_error>>
    /\ UNCHANGED <<concvars, testvars, loopvars>>

\* The chat model's final answer is printed.
AgentFinal ==
    /\ agent_pc = "await_final"
    /\ agent_out' = Append(agent_out, [kind |-> "final", text |-> "model content"])
    /\ agent_pc' = "done"
    /\ UNCHANGED <<corevars, sim_error, fallback_log>>
    /\ UNCHANGED <<concvars, testvars, loopvars>>

\* Thread t enters execute_with_retry(func, args, m).
CEnter(t, m) ==
    /\ pc = "idle" /\ agent_pc = "idle" /\ fallback_log = <<>>
    /\ ScriptsIdle
    /\ c_pc[t] = "idle"
    /\ frames' = [frames EXCEPT ![FrameOf(t)] = NewFrame(m)]
    /\ c_max' = [c_max EXCEPT ![t] = m]
    /\ c_pc' = [c_pc EXCEPT ![t] = "for"]
    /\ UNCHANGED <<c_history, c_waits, c_ret, corevars, agentvars,
                 testvars, loopvars>>

\* Thread t at the head of the for loop.
CForNext(t) ==
    LET f == frames[FrameOf(t)] IN
    /\ c_pc[t] = "for"
    /\ IF RangeHasNext(f.it, f.max_retries)
       THEN /\ frames' = [frames EXCEPT ![FrameOf(t)] =
                             [f EXCEPT !.attempt = f.it, !.it = f.it + 1]]
            /\ c_pc' = [c_pc EXCEPT ![t] = "call"]
            /\ UNCHANGED c_ret
       ELSE /\ c_ret' = [c_ret EXCEPT ![t] = MaxRetriesFailure(f.max_retries)]
            /\ c_pc' = [c_pc EXCEPT ![t] = "done"]
            /\ UNCHANGED frames
    /\ UNCHANGED <<c_max, c_history, c_waits, corevars, agentvars,
                 testvars, loopvars>>

\* Thread t enters its operation.
CCallOp(t) ==
    /\ c_pc[t] = "call"
    /\ c_pc' = [c_pc EXCEPT ![t] = "in_call"]
    /\ UNCHANGED <<frames, c_max, c_history, c_waits, c_ret, corevars, agentvars,
                 testvars, loopvars>>

\* The operation of thread t returns r.
COpReturns(t, r) ==
    /\ c_pc[t] = "in_call"
    /\ frames' = [frames EXCEPT ![FrameOf(t)].result = r]
    /\ c_history' = [c_history EXCEPT ![t] = Append(@, r)]
    /\ c_pc' = [c_pc EXCEPT ![t] = "classify"]
    /\ UNCHANGED <<c_max, c_waits, c_ret, corevars, agentvars,
                 testvars, loopvars>>

\* Thread t runs the loop body after the call.
CClassify(t) ==
    LET f == frames[FrameOf(t)] IN
    /\ c_pc[t] = "classify"
    /\ IF ReturnsImmediately(f.result)
       THEN /\ c_ret' = [c_ret EXCEPT ![t] = f.result]
            /\ c_pc' = [c_pc EXCEPT ![t] = "done"]
            /\ UNCHANGED c_waits
       ELSE IF AttemptsRemain(f.attempt, f.max_retries)
       THEN IF HasError(f.result)
            THEN /\ c_waits' = [c_waits EXCEPT ![t] = Append(@, wait_time(f.attempt))]
                 /\ c_pc' = [c_pc EXCEPT ![t] = "sleep"]
                 /\ UNCHANGED c_ret
            ELSE /\ c_pc' = [c_pc EXCEPT ![t] = "raised"]
                 /\ UNCHANGED <<c_waits, c_ret>>
       ELSE /\ c_pc' = [c_pc EXCEPT ![t] = "for"]
            /\ UNCHANGED <<c_waits, c_ret>>
    /\ UNCHANGED <<frames, c_max, c_history, corevars, agentvars,
                 testvars, loopvars>>

\* The sleep of thread t elapses.
CSleepElapses(t) ==
    /\ c_pc[t] = "sleep"
    /\ c_pc' = [c_pc EXCEPT ![t] = "for"]
    /\ UNCHANGED <<frames, c_max, c_history, c_waits, c_ret, corevars, agentvars,
                 testvars, loopvars>>

\* run_test(query, want_tool, want_args) up to its chat request.
RunTest(want_tool, want_args) ==
    /\ RetryIdle
    /\ ScriptsIdle
    /\ expected_tool' = want_tool
    /\ expected_args' = want_args
    /\ test_pc' = "await_model"
    /\ UNCHANGED <<test_msg, test_result>>
    /\ UNCHANGED <<corevars, agentvars, concvars, loopvars>>

\* The chat model answers the test with m: run_test computes its verdict and
\* returns.
TestModelAnswers(m) ==
    /\ test_pc = "await_model"
    /\ test_msg' = m
    /\ test_result' = run_test(m, expected_tool, expected_args)
    /\ test_pc' = "done"
    /\ UNCHANGED <<expected_tool, expected_args>>
    /\ UNCHANGED <<corevars, agentvars, concvars, loopvars>>

\* run_agent(q, system_prompt) up to its first chat request.
RunAgent(q) ==
    /\ RetryIdle
    /\ ScriptsIdle
    /\ messages' = << [role |-> "system", content |-> system_prompt],
                      [role |-> "user", content |-> q] >>
    /\ requests' = <<2>>
    /\ run_pc' = "await_first"
    /\ UNCHANGED <<msg, step>>
    /\ UNCHANGED <<corevars, agentvars, concvars, testvars>>

\* One pass of the while loop with msg = m and step = st, ending in the next
\* chat request.
LoopPass(m, st) ==
    LET after == LoopBody(m, messages, st)
    IN  /\ messages' = after.messages
        /\ step' = after.step
        /\ requests' = Append(requests, Len(after.messages))
        /\ run_pc' = "await_model"

\* The chat model answers the first request with m: without tool calls
\* run_agent prints the answer and returns; otherwise it sets step to 1 and
\* enters the while loop.
FirstReply(m) ==
    /\ run_pc = "await_first"
    /\ msg' = m
    /\ IF m.tool_calls = <<>>
       THEN /\ run_pc' = "done"
            /\ UNCHANGED <<messages, step, requests>>
       ELSE LoopPass(m, 1)
    /\ UNCHANGED <<corevars, agentvars, concvars, testvars>>

\* The chat model answers a request sent from inside the loop with m: the
\* while test either leaves the loop or starts the next pass.
NextReply(m) ==
    /\ run_pc = "await_model"
    /\ (m.tool_calls # <<>>) => Len(requests) <= MaxRounds
    /\ msg' = m
    /\ IF m.tool_calls = <<>>
       THEN /\ run_pc' = "done"
            /\ UNCHANGED <<messages, step, requests>>
       ELSE LoopPass(m, step)
    /\ UNCHANGED <<corevars, agentvars, concvars, testvars>>

Next ==
    \/ \E f \in available_functions \cup {OtherCallable} :
         \E a \in ArgsOf(f) : \E m \in MaxRetriesValues : Invoke(f, a, m)
    \/ ForNext
    \/ CallOp
    \/ \E r \in OpResults : OpReturns(r)
    \/ Classify
    \/ CancelFires
    \/ SleepElapses
    \/ \E c \in FallbackInputs : CallFallback(c)
    \/ \E e \in SimulatedErrors : AgentStart(e)
    \/ AgentNoToolCall
    \/ \E tc \in ToolCalls : AgentToolCall(tc)
    \/ AgentHandleResult
    \/ AgentFinal
    \/ \E t \in Threads : \E m \in MaxRetriesValues : CEnter(t, m)
    \/ \E t \in Threads : CForNext(t)
    \/ \E t \in Threads : CCallOp(t)
    \/ \E t \in Threads : \E r \in ConcResults : COpReturns(t, r)
    \/ \E t \in Threads : CClassify(t)
    \/ \E t \in Threads : CSleepElapses(t)
    \/ \E want_tool \in ExpectedTools : \E want_args \in ExpectedArgs :
         RunTest(want_tool, want_args)
    \/ \E m \in TestMessages : TestModelAnswers(m)
    \/ \E q \in UserQueries : RunAgent(q)
    \/ \E m \in CascadeReplies(1) : FirstReply(m)
    \/ \E m \in CascadeReplies(Len(requests)) : NextReply(m)

Spec == Init /\ [][Next]_vars

\* The invocation is a running thread: each of its steps is taken once it is
\* possible; every operation call returns and every sleep elapses. Nothing
\* obliges a caller to invoke, or the host to cancel.
LiveSpec ==
    /\ Spec
    /\ WF_vars(ForNext)
    /\ WF_vars(CallOp)
    /\ WF_vars(\E r \in OpResults : OpReturns(r))
    /\ WF_vars(Classify)
    /\ WF_vars(SleepElapses)

\* ------------------------------------------------------------ vocabulary

\* The Result kinds of the data model, read off a dict.
IsSuccess(r) == ~HasError(r)
RetryableFailure(r) == HasError(r) /\ RetryableFlag(r)
NonRetryableFailure(r) ==
    HasError(r) /\ "retryable" \in DOMAIN r /\ r.retryable = FALSE

Calls == Len(history)
Done == pc = "done"
AllCalls(P(_)) == \A i \in 1 .. Len(history) : P(history[i])

\* -------------------------------------------------------------- claims

\* C1: with max_retries = 3 and an operation that returned a retryable
\* Failure on every call, a finished invocation has called the operation
\* exactly 3 times, has slept exactly twice (1, then 2), and has returned the
\* terminal Failure with code "max_retries".
C1_AlwaysRetryable ==
    (Done /\ max_retries = 3 /\ AllCalls(RetryableFailure))
        => /\ Calls = 3
           /\ waits = <<1, 2>>
           /\ ret_line = "line102"
           /\ HasError(ret) /\ ret.error = "max_retries"
           /\ ~RetryableFlag(ret)

C1_Witness ==
    /\ Done /\ max_retries = 3 /\ Calls = 3
    /\ AllCalls(RetryableFailure)
    /\ history[1].error = "timeout"
    /\ ret.error = "max_retries"

\* C2: with max_retries = 3 and an operation that returned retryable
\* Failures on attempts 0 and 1, a finished invocation made a third call and
\* slept exactly twice (1, then 2); when that third call returned a Success,
\* the Success itself is the returned value and no sleep followed it.
C2_FailFailSucceed ==
    (Done /\ max_retries = 3 /\ Calls >= 2
          /\ RetryableFailure(history[1]) /\ RetryableFailure(history[2]))
        => /\ Calls = 3
           /\ waits = <<1, 2>>
           /\ IsSuccess(history[3])
                => (ret = history[3] /\ ret_line = "line93" /\ IsSuccess(ret))

C2_Witness ==
    /\ Done /\ max_retries = 3 /\ Calls = 3
    /\ RetryableFailure(history[1]) /\ RetryableFailure(history[2])
    /\ IsSuccess(history[3])
    /\ ret = orders["ORD-67890"]
    /\ waits = <<1, 2>>

\* C3: for every max_retries >= 1, an invocation whose operation returned
\* only Successes never makes a second call and never sleeps, and once
\* finished it has made exactly one call and returned that call's value.
C3_AlwaysSuccess ==
    (max_retries >= 1 /\ AllCalls(IsSuccess))
        => /\ Calls <= 1
           /\ waits = <<>>
           /\ pc # "sleep"
           /\ Done => (Calls = 1 /\ ret = history[1] /\ ret_line = "line93")

C3_Witness ==
    /\ Done /\ max_retries = MaxRetriesBound
    /\ Calls = 1 /\ IsSuccess(history[1])
    /\ ret = inventory["blue-widget"]

\* C4: for every max_retries >= 1, when the first call returned a Failure
\* with retryable = false, the invocation makes no second call and no sleep,
\* and returns that Failure unchanged (code, message and flag).
C4_NonRetryableFirst ==
    (max_retries >= 1 /\ Calls >= 1 /\ NonRetryableFailure(history[1]))
        => /\ Calls = 1
           /\ waits = <<>>
           /\ pc \in {"classify", "done"}
           /\ Done => /\ ret = history[1]
                      /\ ret.error = history[1].error
                      /\ ret.message = history[1].message
                      /\ ret.retryable = history[1].retryable
                      /\ ret_line = "line93"

C4_Witness ==
    /\ Done /\ max_retries >= 1 /\ Calls = 1
    /\ ret = [error |-> "not_found", message |-> "Order ORD-99999 not found",
              retryable |-> FALSE]
    /\ ret = history[1]

\* C5: in every reachable state of an invocation, for any max_retries, the
\* number of operation calls made so far does not exceed max_retries.
C5_CallsWithinBudget == Calls <= max_retries

\* The budget as range() reads it: a negative max_retries yields no index,
\* and the calls stay within max(0, max_retries).
C5_CallsWithinNonNegativeBudget ==
    Calls <= (IF max_retries >= 0 THEN max_retries ELSE 0)

C5_Witness == Done /\ max_retries = MaxRetriesBound /\ Calls = max_retries

\* C6: at any attempt, once the operation has returned a Failure with
\* retryable = false, that call is the last one, no sleep follows it (the
\* sleeps are those of the attempts before it), and the invocation's only
\* continuation is to return that Failure.
C6_NonRetryableStops ==
    \A i \in 1 .. Len(history) :
        NonRetryableFailure(history[i])
            => /\ i = Calls
               /\ Len(waits) = i - 1
               /\ pc \in {"classify", "done"}
               /\ Done => (ret = history[i] /\ ret_line = "line93")

C6_Witness ==
    /\ Done /\ Calls = 3 /\ Len(waits) = 2
    /\ RetryableFailure(history[1]) /\ RetryableFailure(history[2])
    /\ NonRetryableFailure(history[3])
    /\ ret = history[3]

\* C7: whenever the returned result is the synthesized max_retries Failure
\* (the final return statement), the operation was called and every call of
\* the invocation returned a Failure with retryable = true.
C7_MaxRetriesOnlyAfterRetryables ==
    (Done /\ ret_line = "line102")
        => (Calls >= 1 /\ AllCalls(RetryableFailure))

\* C8: the invocation never returns a Failure whose retryable flag is true;
\* on budget exhaustion the result is the synthesized Failure with code
\* "max_retries", retryable = false and a message stating the attempt count
\* (the budget, which is the number of calls made for every budget >= 0),
\* never a Failure the operation returned.
C8_NeverReturnsRetryable ==
    Done =>
        /\ ~RetryableFailure(ret)
        /\ ret_line = "line102" =>
              /\ ret.error = "max_retries"
              /\ ret.retryable = FALSE
              /\ ret.message = "Failed after " \o ToString(max_retries) \o " attempts"
              /\ max_retries >= 0 => Calls = max_retries
              /\ Calls >= 1 => (ret # history[Calls] /\ RetryableFailure(history[Calls]))
        /\ ret_line = "line93" => (ret = history[Calls] /\ ReturnsImmediately(ret))

C8_Witness ==
    /\ Done /\ ret_line = "line102" /\ max_retries = 2
    /\ Calls = 2 /\ history[2].error = "service_unavailable"
    /\ ret.message = "Failed after 2 attempts"

\* C9: for every max_retries >= 1, the k-th sleep of an invocation lasts
\* 2 ** (k-1) and follows a retryable Failure at attempt k-1 < max_retries-1;
\* attempt i starts only after i sleeps; a sleep in progress follows a
\* non-last attempt; and a retryable Failure at the last index is followed by
\* no sleep, so an exhausted invocation has slept max_retries - 1 times.
C9_BackoffSchedule ==
    max_retries >= 1 =>
        /\ \A k \in 1 .. Len(waits) :
              /\ waits[k] = 2 ^ (k - 1)
              /\ k - 1 < max_retries - 1
              /\ k <= Calls /\ RetryableFailure(history[k])
        /\ pc \in {"call", "in_call"} => (Len(waits) = attempt /\ Calls = attempt)
        /\ pc = "sleep" =>
              (Len(waits) = attempt + 1 /\ attempt < max_retries - 1
                 /\ Calls = attempt + 1)
        /\ (pc = "for" /\ Calls = max_retries) => Len(waits) = max_retries - 1
        /\ (Done /\ ret_line = "line102") =>
              (Calls = max_retries /\ Len(waits) = max_retries - 1)

C9_Witness ==
    /\ pc = "for" /\ max_retries = MaxRetriesBound /\ Calls = max_retries
    /\ RetryableFailure(result)
    /\ Len(waits) = max_retries - 1
    /\ waits[Len(waits)] = 2 ^ (max_retries - 2)

\* C10: an invocation with max_retries < 1 ends with invalid_configuration,
\* not with the max_retries outcome, and calls the operation zero times.
C10_InvalidConfiguration ==
    (Done /\ max_retries < 1)
        => /\ Calls = 0
           /\ HasError(ret) /\ ret.error = "invalid_configuration"
           /\ ret_line # "line102"

\* What the code does for max_retries < 1: no call, no sleep, and the
\* synthesized max_retries Failure from the final return statement.
C10_ZeroBudgetBehaviour ==
    (Done /\ max_retries < 1)
        => /\ Calls = 0 /\ waits = <<>>
           /\ ret = MaxRetriesFailure(max_retries)
           /\ ret_line = "line102"

\* ------------------------------------------------- claims, second part

CallEvents == {k \in 1 .. Len(trace) : trace[k].ev = "call"}
ReturnEvents == {k \in 1 .. Len(trace) : trace[k].ev = "return"}

\* C11: with max_retries = 3, when a cancellation request arrives during the
\* sleep that follows a retryable Failure at attempt 0, attempt 1 is never
\* started and the invocation returns a Failure with code "cancelled".
C11_CancelDuringFirstWait ==
    (max_retries = 3 /\ cancelled_at = 0)
        => /\ \A k \in CallEvents : trace[k].attempt = 0
           /\ Done => (HasError(ret) /\ ret.error = "cancelled")

\* What the code does with the request: the sleep runs to its end and the
\* outcome is the one the operation's Results determine; no return value
\* carries the code "cancelled" unless the operation produced it.
C11_CancellationIgnored ==
    Done => \/ ret_line = "line93" /\ ret = history[Calls]
            \/ ret_line = "line102" /\ ret = MaxRetriesFailure(max_retries)

\* C12: once entered, an invocation whose operation calls return and whose
\* sleeps elapse reaches the terminal state; the value it returns there is
\* its only one (none before, none other after), is a Success, a Failure
\* that is not retryable or the synthesized Failure, and no call or sleep
\* follows it.
C12_OneTerminalResult ==
    /\ (pc = "for") ~> (pc = "done")
    /\ [](pc # "done" => (ret = NoValue /\ ret_line = "none"))
    /\ [](pc = "done" => (ret # NoValue /\ ~RetryableFailure(ret)
                            /\ (IsSuccess(ret) \/ HasError(ret))))
    /\ [][pc = "done" => (pc' = "done" /\ ret' = ret /\ ret_line' = ret_line
                            /\ history' = history /\ waits' = waits
                            /\ trace' = trace)]_vars

C12_Witness ==
    /\ pc = "done" /\ max_retries = 2 /\ Calls = 2
    /\ RetryableFailure(history[1]) /\ IsSuccess(history[2])
    /\ waits = <<1>> /\ ret = history[2]

\* C15: whatever Results the operation returns, execute_with_retry raises
\* nothing: it never leaves by an exception and what it returns is a Result;
\* that holds for max_retries < 1 too, which is reported by a returned
\* Result and not by an exception.
C15_NeverRaises ==
    /\ raised = "none"
    /\ pc # "raised"
    /\ Done => (ret # NoValue /\ (ret \in OpResults \/ ret = MaxRetriesFailure(max_retries)))

C15_Witness ==
    /\ Done /\ func = OtherCallable /\ Calls = 2
    /\ RetryableFailure(history[1]) /\ history[1].error = "timeout"
    /\ NonRetryableFailure(history[2]) /\ history[2].error = "not_found"
    /\ ret = history[2] /\ raised = "none"

\* C16: at most one operation call is in flight, and the attempts are in
\* order: the calls carry the indices 0, 1, 2, ... and the call of attempt
\* i+1 is immediately preceded by the return of attempt i, the start of the
\* sleep of 2**i and the end of that sleep.
C16_OneInFlightInOrder ==
    /\ Cardinality(CallEvents) - Cardinality(ReturnEvents)
          = (IF pc = "in_call" THEN 1 ELSE 0)
    /\ \A k \in CallEvents :
          /\ trace[k].attempt = Cardinality({j \in CallEvents : j < k})
          /\ trace[k].attempt = 0 => k = 1
          /\ trace[k].attempt >= 1 =>
                /\ k >= 5
                /\ trace[k - 1] = Event("wake", trace[k].attempt - 1,
                                        2 ^ (trace[k].attempt - 1), NoValue)
                /\ trace[k - 2] = Event("sleep", trace[k].attempt - 1,
                                        2 ^ (trace[k].attempt - 1), NoValue)
                /\ trace[k - 3] = Event("return", trace[k].attempt - 1, 0, NoValue)
                /\ trace[k - 4].ev = "call"
                /\ trace[k - 4].attempt = trace[k].attempt - 1

C16_Witness ==
    /\ pc = "in_call" /\ attempt = 2
    /\ Len(trace) = 9
    /\ trace[8].ev = "wake" /\ trace[8].secs = 2
    /\ trace[9].ev = "call"

\* C19: every call of an invocation hands the operation exactly the args
\* dict the caller supplied: the same keys and values on every attempt, no
\* attempt index among them, and args is as supplied when the invocation
\* returns.
C19_SameArgsEveryAttempt ==
    pc # "idle" =>
        /\ args \in ArgsOf(func)
        /\ \A k \in CallEvents :
              /\ DOMAIN trace[k].kwargs = DOMAIN args
              /\ "attempt" \notin DOMAIN trace[k].kwargs
              /\ trace[k].kwargs = args

C19_Witness ==
    /\ Done /\ Cardinality(CallEvents) = 3
    /\ args = [order_id |-> "ORD-67890", simulate_error |-> "timeout"]
    /\ \A k \in CallEvents : trace[k].kwargs = args

\* ------------------------------------------ claims, resolver and agent

RecognizedCodes == {"not_found", "timeout", "rate_limit", "service_unavailable", "max_retries"}

\* C13: get_fallback_response answers every string: each of the five
\* recognized codes gets its own message, different from the others and
\* from the generic one, and every other string gets the one generic
\* message, which names support@globomantics.com.
C13_FallbackTotal ==
    \A k \in 1 .. Len(fallback_log) :
        LET e == fallback_log[k].error
            m == fallback_log[k].message
        IN /\ e = "not_found" =>
                 m = "I couldn't find that. Please double-check the ID and try again."
           /\ e = "timeout" =>
                 m = "Our system is running slow. Would you like me to try again?"
           /\ e = "rate_limit" =>
                 m = "We're experiencing high traffic. Please wait a moment."
           /\ e = "service_unavailable" =>
                 m = "Our system is temporarily unavailable. Try again in a few minutes."
           /\ e = "max_retries" =>
                 m = "I'm having trouble accessing our systems. Let me connect you with support@globomantics.com"
           /\ e \notin RecognizedCodes =>
                 m = "I encountered an issue. Please contact support@globomantics.com"
           /\ \A j \in 1 .. Len(fallback_log) :
                 (e \in RecognizedCodes /\ fallback_log[j].error # e)
                     => fallback_log[j].message # m

C13_Witness ==
    /\ Len(fallback_log) = 2
    /\ fallback_log[1].error = "not_found"
    /\ fallback_log[2].error = "NOT_FOUND"
    /\ fallback_log[2].message = GenericFallback
    /\ fallback_log[1].message # GenericFallback

\* C18: in run_agent_with_fallback get_fallback_response is called exactly
\* when execute_with_retry returned a Failure, once, with that Failure's
\* code; it is not called when the result is a Success, and it is not called
\* while execute_with_retry runs.
C18_FallbackOnlyOnFailure ==
    /\ pc \notin {"idle", "done"} => fallback_log = <<>>
    /\ agent_pc \in {"await_model", "executing", "await_final"} => fallback_log = <<>>
    /\ agent_pc = "await_final" => (pc = "done" /\ IsSuccess(ret))
    /\ (agent_pc = "done" /\ pc = "done") =>
          IF HasError(ret)
          THEN /\ Len(fallback_log) = 1
               /\ fallback_log[1].error = ret.error
               /\ agent_out = <<[kind |-> "fallback", text |-> fallback_log[1].message]>>
          ELSE /\ fallback_log = <<>>
               /\ agent_out = <<[kind |-> "final", text |-> "model content"]>>
    /\ (agent_pc = "done" /\ pc = "idle") => fallback_log = <<>>

C18_Witness ==
    /\ agent_pc = "done" /\ pc = "done"
    /\ func = "get_order_status" /\ args = [order_id |-> "ORD-99999"]
    /\ Len(fallback_log) = 1 /\ fallback_log[1].error = "not_found"

\* C20: in a finished run of run_agent_with_fallback whose backend failed
\* with timeout, rate_limit or service_unavailable, the backend was called 3
\* times (sleeps 1 and 2) and the one line shown is the max_retries fallback;
\* when it failed with not_found it was called once and the line shown is
\* the not_found fallback; the timeout, rate_limit and service_unavailable
\* fallback messages are never shown.
C20_EndToEnd ==
    /\ (agent_pc = "done" /\ pc = "done" /\ HasError(history[1])) =>
          /\ history[1].error \in {"timeout", "rate_limit", "service_unavailable"} =>
                /\ Calls = 3
                /\ waits = <<1, 2>>
                /\ RetryableFailure(history[1])
                /\ agent_out = <<[kind |-> "fallback",
                                  text |-> "I'm having trouble accessing our systems. Let me connect you with support@globomantics.com"]>>
          /\ history[1].error = "not_found" =>
                /\ Calls = 1
                /\ waits = <<>>
                /\ NonRetryableFailure(history[1])
                /\ agent_out = <<[kind |-> "fallback",
                                  text |-> "I couldn't find that. Please double-check the ID and try again."]>>
    /\ agent_pc # "idle" =>
          \A k \in 1 .. Len(agent_out) :
              agent_out[k].text \notin
                  {"Our system is running slow. Would you like me to try again?",
                   "We're experiencing high traffic. Please wait a moment.",
                   "Our system is temporarily unavailable. Try again in a few minutes."}

C20_Witness ==
    /\ agent_pc = "done" /\ pc = "done" /\ sim_error = "rate_limit"
    /\ func = "check_inventory" /\ Calls = 3
    /\ history[3].error = "rate_limit"
    /\ Len(agent_out) = 1 /\ agent_out[1].kind = "fallback"

\* ----------------------------------------------- claims, concurrency

Outcome(t) == [calls |-> Len(c_history[t]), waits |-> c_waits[t], ret |-> c_ret[t]]

\* C17: under every interleaving of two concurrent invocations, a finished
\* invocation has made the calls, slept the sleeps and returned the value
\* that execute_with_retry makes by itself on the Results its own operation
\* returned; and that reference is what the single invocation does.
C17_IndependentInvocations ==
    /\ Done =>
          [calls |-> Calls, waits |-> waits, ret |-> ret]
              = RunAlone(max_retries, history, 0, <<>>)
    /\ \A t \in Threads :
          /\ c_pc[t] # "raised"
          /\ c_pc[t] = "done" => Outcome(t) = RunAlone(c_max[t], c_history[t], 0, <<>>)

C17_Witness ==
    /\ c_pc[1] = "done" /\ c_max[1] = 3 /\ Len(c_history[1]) = 3
    /\ c_ret[1] = MaxRetriesFailure(3)
    /\ c_pc[2] = "sleep" /\ c_max[2] = 2 /\ Len(c_history[2]) = 1

\* ------------------------------------------- claims, classification

\* C23: a result is retried only when it has an "error" key and a true
\* "retryable" value. A result with an "error" key and a missing or false
\* flag, and a result without an "error" key whatever its "retryable" field,
\* ends the invocation at that attempt: no sleep follows and the result is
\* returned unchanged.
C23_Classification ==
    /\ \A i \in 1 .. Len(history) :
          (("error" \notin DOMAIN history[i])
             \/ ("retryable" \notin DOMAIN history[i])
             \/ (history[i].retryable = FALSE))
              => /\ i = Calls
                 /\ Len(waits) = i - 1
                 /\ pc \in {"classify", "done"}
                 /\ Done => (ret = history[i] /\ ret_line = "line93")
    /\ \A k \in 1 .. Len(waits) :
          /\ k <= Calls
          /\ "error" \in DOMAIN history[k]
          /\ "retryable" \in DOMAIN history[k]
          /\ history[k].retryable = TRUE

\* An "error" without the flag, met on the second attempt.
C23_Witness ==
    /\ Done /\ Calls = 2 /\ waits = <<1>>
    /\ history[2] = [error |-> "bad_request", message |-> "Malformed arguments"]
    /\ ret = history[2]

\* A success that carries "retryable": True.
C23_WitnessFlaggedSuccess ==
    /\ Done /\ Calls = 1 /\ waits = <<>>
    /\ ret = [order_id |-> "ORD-12345", status |-> "delayed", retryable |-> TRUE]

\* ------------------------------------------- claims, stress-test runner

TestDone == test_pc = "done"
ModelCalledTool == test_msg.tool_calls # <<>>
CalledTool == test_msg.tool_calls[1].function.name
CalledArgs == json_loads(test_msg.tool_calls[1].function.arguments)

\* C21: a test that expects no tool (expected_tool = None) is marked passed
\* only if the answer of the model has no tool call; a test with an expected
\* tool is marked passed only if the model called that tool and every
\* expected argument key has the expected value.
C21_PassedOnlyAsExpected ==
    (TestDone /\ test_result.passed)
        => IF expected_tool = "None"
           THEN ~ModelCalledTool
           ELSE /\ ModelCalledTool
                /\ CalledTool = expected_tool
                /\ expected_args # NoneArgs
                     => \A key \in DOMAIN expected_args :
                           /\ key \in DOMAIN CalledArgs
                           /\ CalledArgs[key] = expected_args[key]

\* The half of C21 about tests with an expected tool, which the code meets.
C21_ExpectedToolHalf ==
    (TestDone /\ test_result.passed /\ expected_tool # "None")
        => /\ ModelCalledTool
           /\ CalledTool = expected_tool
           /\ expected_args # NoneArgs
                => \A key \in DOMAIN expected_args :
                      /\ key \in DOMAIN CalledArgs
                      /\ CalledArgs[key] = expected_args[key]

\* What the code does with the tests of main that expect no tool
\* (None, None): they pass whatever the model answers.
C21_NoToolTestAlwaysPasses ==
    (TestDone /\ expected_tool = "None" /\ expected_args = NoneArgs)
        => test_result.passed

\* A test that expects no tool, answered with a tool call, and marked passed.
C21_PassedDespiteToolCall ==
    /\ TestDone
    /\ expected_tool = "None" /\ expected_args = NoneArgs
    /\ ModelCalledTool /\ CalledTool = "process_refund"
    /\ test_result.passed

\* A test with an expected tool, passed with a further key in the arguments.
C21_ExpectedToolPassed ==
    /\ TestDone
    /\ expected_tool = "process_refund"
    /\ expected_args = [order_id |-> "ORD-67890"]
    /\ CalledArgs = [order_id |-> "ORD-67890", reason |-> "damaged"]
    /\ test_result.passed

\* ------------------------------------------- claims, cascading-errors loop

AssistantAt == { k \in 1 .. Len(messages) : messages[k].role = "assistant" }
ToolAt == { k \in 1 .. Len(messages) : messages[k].role = "tool" }

\* C22: every assistant message with tool calls is in the conversation
\* before its tool messages; it is followed by exactly one tool message per
\* tool call, with the id of that tool call, in tool-call order; the next
\* chat request is sent only after the last of them; the loop ends only on a
\* reply without tool calls; and step is one plus the number of tool calls
\* executed so far.
C22_ConversationOrder ==
    /\ \A k \in AssistantAt :
          LET tcs == messages[k].tool_calls
              n == Len(tcs)
          IN  /\ n >= 1
              /\ k + n <= Len(messages)
              /\ \A j \in 1 .. n :
                    /\ messages[k + j].role = "tool"
                    /\ messages[k + j].tool_call_id = tcs[j].id
                    /\ messages[k + j].content
                         = json_dumps(call_tool(tcs[j].function.name,
                                                json_loads(tcs[j].function.arguments)))
              /\ (k + n < Len(messages)) => messages[k + n + 1].role = "assistant"
              /\ \E r \in 1 .. Len(requests) : requests[r] = k + n
              /\ \A r \in 1 .. Len(requests) : requests[r] < k \/ requests[r] >= k + n
    /\ \A k \in ToolAt :
          \E a \in AssistantAt : a < k /\ k <= a + Len(messages[a].tool_calls)
    /\ Len(requests) = (IF run_pc = "idle" THEN 0 ELSE 1) + Cardinality(AssistantAt)
    /\ (run_pc = "await_model") => requests[Len(requests)] = Len(messages)
    /\ (run_pc = "done") => msg.tool_calls = <<>>
    /\ (run_pc = "await_model") => msg.tool_calls # <<>>
    /\ (step # 0) => step = 1 + Cardinality(ToolAt)
    /\ (step = 0) => ToolAt = {}

\* Two passes of the loop, the first with two tool calls, then a final reply.
C22_Witness ==
    /\ run_pc = "done"
    /\ Len(messages) = 7
    /\ Len(messages[3].tool_calls) = 2
    /\ messages[4].tool_call_id = "call_1_1"
    /\ messages[5].tool_call_id = "call_1_2"
    /\ messages[6].role = "assistant"
    /\ messages[7].tool_call_id = "call_2_1"
    /\ requests = <<2, 5, 7>>
    /\ step = 4

====
